---- MODULE Spec2Model ----
(***************************************************************************)
(* Model of src/api/predict.py: the module-level loading of the model and  *)
(* the encoder, and the request handler handle_predict (validation, one-   *)
(* hot encoding, column reindexing, anomaly scoring, risk normalization).  *)
(*                                                                         *)
(* Raw anomaly scores are counted in thousandths (0.2 is 200); a risk      *)
(* before rounding is counted in quarters of a percent (50.25 is 201), so  *)
(* that 100 * (max_score - s) / (max_score - min_score) is exact.          *)
(***************************************************************************)
EXTENDS Integers, Sequences, FiniteSets, TLC

(* ------------------------------ bounds -------------------------------- *)

\* Categories of each categorical feature the encoder saw when it was fitted.
NCats == 2
\* Requests that may be in flight at once.
NReq == 2
\* Numerical inputs range over 0..MaxNum.
MaxNum == 1
\* Raw scores of the normalization runs range over -MaxScore..MaxScore ...
MaxScore == 220
\* ... and the two far points -FarScore and FarScore (10.0 is 10000).
FarScore == 10000

(* ------------------------------ values -------------------------------- *)

\* A JSON value of the request body.  A string is named by a number: 1..NCats
\* are the strings the encoder was fitted on, 0 is a string it never saw.
Str(v) == [kind |-> "str", v |-> v]
Num(v) == [kind |-> "num", v |-> v]
Null == [kind |-> "null", v |-> 0]
Nested == [kind |-> "list", v |-> 0]
Absent == [kind |-> "absent", v |-> 0]

\* Python's None, and a name that is not bound yet.
None == [kind |-> "None"]
Unbound == [kind |-> "unbound"]

required_input_cols ==
    <<"soil_type", "crop_type", "tillage_type", "season",
      "temp_7day_avg_f", "precip_7day_total_in">>

categorical_cols == <<"soil_type", "crop_type", "tillage_type", "season">>

numerical_cols == <<"temp_7day_avg_f", "precip_7day_total_in">>

Range(s) == {s[i] : i \in 1..Len(s)}

CatValues == {Str(v) : v \in 0..NCats} \cup {Null, Nested, Absent}

NumValues == {Num(v) : v \in 0..MaxNum} \cup {Null, Str(0), Absent}

\* The request bodies: every choice of the six fields, each present or not,
\* and one body that holds only a field the handler never looks at.
Inputs ==
    [soil_type : CatValues, crop_type : CatValues, tillage_type : CatValues,
     season : CatValues, temp_7day_avg_f : NumValues,
     precip_7day_total_in : NumValues, notes : {Absent}]
    \cup
    {[soil_type |-> Absent, crop_type |-> Absent, tillage_type |-> Absent,
      season |-> Absent, temp_7day_avg_f |-> Absent,
      precip_7day_total_in |-> Absent, notes |-> Str(0)]}

HasKey(j, k) == j[k].kind # "absent"

\* `not input_data`: the body is an empty mapping.
IsEmpty(j) == \A k \in DOMAIN j : ~HasKey(j, k)

(* ----------------------------- artifacts ------------------------------ *)

\* The fitted one-hot encoder: its categories per feature, unknown categories
\* ignored (all-zero slots); whether a null value counts as an unknown
\* category or is rejected depends on the library that fitted it.
EncoderArtifacts ==
    {[kind |-> "encoder",
      categories |-> [f \in Range(categorical_cols) |-> [i \in 1..NCats |-> i]],
      null_as |-> p] : p \in {"unknown", "raise"}}

\* The fitted anomaly model: a deterministic function of the feature vector.
ModelArtifacts ==
    {[kind |-> "model", offset |-> -260, weight |-> 17],
     [kind |-> "model", offset |-> 250, weight |-> -13]}

\* A column label: a numerical column, or the one-hot column of a category.
NumCol(f) == [feature |-> f, cat |-> -1]
CatCol(f, c) == [feature |-> f, cat |-> c]

RECURSIVE get_feature_names_out(_, _)
get_feature_names_out(enc, cols) ==
    IF cols = <<>> THEN <<>>
    ELSE [i \in 1..Len(enc.categories[Head(cols)]) |->
             CatCol(Head(cols), enc.categories[Head(cols)][i])]
         \o get_feature_names_out(enc, Tail(cols))

OneHot(cats, val) ==
    [i \in 1..Len(cats) |->
        Num(IF val.kind = "str" /\ val.v = cats[i] THEN 1 ELSE 0)]

RECURSIVE TransformRow(_, _, _)
TransformRow(enc, cols, X) ==
    IF cols = <<>> THEN <<>>
    ELSE OneHot(enc.categories[Head(cols)], Head(X))
         \o TransformRow(enc, Tail(cols), Tail(X))

\* encoder.transform raises: a nested value is not a category, and a null
\* is rejected by an encoder that does not take it for an unknown category.
TransformRaises(enc, X) ==
    IF enc = None THEN TRUE
    ELSE \E i \in 1..Len(X) :
            \/ X[i].kind = "list"
            \/ X[i].kind = "null" /\ enc.null_as = "raise"

RECURSIVE WeightedSum(_, _)
WeightedSum(vals, i) ==
    IF i = 0 THEN 0 ELSE i * vals[i].v + WeightedSum(vals, i - 1)

\* model.decision_function raises on anything that is not a number.
DecisionRaises(m, X) ==
    IF m = None THEN TRUE
    ELSE \E i \in 1..Len(X.vals) : X.vals[i].kind # "num"

DecisionFunction(m, X) ==
    ((m.offset + m.weight * WeightedSum(X.vals, Len(X.vals)) + 500) % 1001) - 500

(* ------------------------------ frames -------------------------------- *)

\* A one-row DataFrame: its column labels and the row's values.
Frame(cols, vals) == [cols |-> cols, vals |-> vals]

Select(j, cols) == Frame([i \in 1..Len(cols) |-> NumCol(cols[i])],
                         [i \in 1..Len(cols) |-> j[cols[i]]])

\* A faulty variant: the numerical columns are left out of the concatenation.
ConcatEncodedOnly(a, b) == b

\* pd.concat(..., axis=1)
Concat(a, b) == Frame(a.cols \o b.cols, a.vals \o b.vals)

\* DataFrame.reindex(columns=..., fill_value=...)
Reindex(df, columns, fill_value) ==
    Frame(columns,
          [i \in 1..Len(columns) |->
              IF \E k \in 1..Len(df.cols) : df.cols[k] = columns[i]
              THEN df.vals[CHOOSE k \in 1..Len(df.cols) : df.cols[k] = columns[i]]
              ELSE fill_value])

(* --------------------------- normalization ---------------------------- *)

min_score == -200
max_score == 200

Min(a, b) == IF a <= b THEN a ELSE b
Max(a, b) == IF a >= b THEN a ELSE b

\* A faulty variant: the scale rises with the score.
ScaleRiskRising(s) == (100 * 4 * (s - min_score)) \div (max_score - min_score)

\* 100 * (max_score - s) / (max_score - min_score), in quarters of a percent.
ScaleRisk(s) == (100 * 4 * (max_score - s)) \div (max_score - min_score)

\* A faulty variant: the risk is not clamped.
ClampRiskOmitted(x) == x

\* max(0, min(100, risk)), in quarters of a percent.
ClampRisk(x) == Max(0, Min(100 * 4, x))

\* The halves (in quarters of a percent) that the double arithmetic of the
\* scaling lands above the half, so that round() goes up; it goes down on the
\* other halves.
TiesRoundedUp ==
    {2, 6, 10, 14, 18, 22, 26, 30, 38, 42, 46, 50, 54, 58, 62, 70, 74, 78, 86,
     90, 94, 98, 102, 106, 110, 114, 118, 134, 142, 150, 158, 166, 174, 182,
     190, 198, 202, 206, 210, 214, 230, 238, 242, 246, 262, 270, 278, 286,
     294, 302, 310, 318, 326, 350, 366, 382, 390, 398}

\* A faulty variant: int() in place of round().
RoundRiskDown(x) == x \div 4

\* round(risk_percentage): quarters of a percent to the nearest percent.
RoundRisk(x) ==
    IF x % 4 < 2 THEN x \div 4
    ELSE IF x % 4 > 2 THEN x \div 4 + 1
    ELSE IF x \in TiesRoundedUp THEN x \div 4 + 1
    ELSE x \div 4

(* ------------------------------ responses ----------------------------- *)

Reply(status, error, need, risk, raw) ==
    [status |-> status, error |-> error, need |-> need,
     risk_percentage |-> risk, raw_anomaly_score |-> raw]

NoResponse == Reply(0, "", <<>>, 0, 0)

ModelNotLoaded == Reply(500, "Model not loaded. Check server logs.", <<>>, 0, 0)

NoInputData == Reply(400, "No input data provided", <<>>, 0, 0)

MissingFields ==
    Reply(400, "Missing required input fields. Need:", required_input_cols, 0, 0)

\* A faulty variant: the except branch returns without a status code.
PredictionFailedNoStatus == Reply(200, "Prediction failed:", <<>>, 0, 0)

\* The except branch of the handler.
PredictionFailed == Reply(500, "Prediction failed:", <<>>, 0, 0)

Result(risk, raw) == Reply(200, "", <<>>, risk, raw)

(* ------------------------------- state -------------------------------- *)

VARIABLES
    phase,                \* where the module-level code stands
    model,                \* module globals
    encoder,
    model_input_columns,
    pc,                   \* per request: where handle_predict stands
    request_json,         \* per request: the body sent
    input_data,           \* per request: the handler's locals
    encoded_cats_df,
    features_combined,
    features_final,
    anomaly_score_raw,
    risk_percentage,
    response,             \* per request: what the handler returned
    trace                 \* per request: the stages invoked, in order

globals == <<model, encoder, model_input_columns>>

locals == <<input_data, encoded_cats_df, features_combined, features_final,
            anomaly_score_raw, risk_percentage>>

vars == <<phase, globals, pc, request_json, locals, response, trace>>

Requests == 1..NReq

NoFrame == Frame(<<>>, <<>>)

IdleRequests ==
    /\ pc = [r \in Requests |-> "idle"]
    /\ request_json = [r \in Requests |-> Unbound]
    /\ input_data = [r \in Requests |-> Unbound]
    /\ encoded_cats_df = [r \in Requests |-> NoFrame]
    /\ features_combined = [r \in Requests |-> NoFrame]
    /\ features_final = [r \in Requests |-> NoFrame]
    /\ anomaly_score_raw = [r \in Requests |-> 0]
    /\ risk_percentage = [r \in Requests |-> 0]
    /\ response = [r \in Requests |-> NoResponse]
    /\ trace = [r \in Requests |-> <<>>]

\* The module is imported: nothing is loaded yet and no request is in flight.
Init ==
    /\ phase = "load_model"
    /\ model = Unbound
    /\ encoder = Unbound
    /\ model_input_columns = <<>>
    /\ IdleRequests

(* ------------------------------ startup ------------------------------- *)

perRequest == <<pc, request_json, locals, response, trace>>

\* model = joblib.load(model_path)
LoadModel ==
    /\ phase = "load_model"
    /\ \E m \in ModelArtifacts : model' = m
    /\ phase' = "load_encoder"
    /\ UNCHANGED <<encoder, model_input_columns, perRequest>>

\* encoder = joblib.load(encoder_path)
LoadEncoder ==
    /\ phase = "load_encoder"
    /\ \E e \in EncoderArtifacts : encoder' = e
    /\ phase' = "derive_columns"
    /\ UNCHANGED <<model, model_input_columns, perRequest>>

\* model_input_columns = numerical_cols + list(expected_columns)
DeriveColumns ==
    /\ phase = "derive_columns"
    /\ model_input_columns' =
          [i \in 1..Len(numerical_cols) |-> NumCol(numerical_cols[i])]
          \o get_feature_names_out(encoder, categorical_cols)
    /\ phase' = "serving"
    /\ UNCHANGED <<model, encoder, perRequest>>

\* A faulty variant: the except branch resets the model alone.
StartupExceptPartial ==
    /\ phase \in {"load_model", "load_encoder", "derive_columns"}
    /\ model' = None
    /\ model_input_columns' = <<>>
    /\ phase' = "serving"
    /\ UNCHANGED <<encoder, perRequest>>

\* The statement in progress raises: the except branch.
StartupExcept ==
    /\ phase \in {"load_model", "load_encoder", "derive_columns"}
    /\ model' = None
    /\ encoder' = None
    /\ model_input_columns' = <<>>
    /\ phase' = "serving"
    /\ UNCHANGED perRequest

Startup == LoadModel \/ LoadEncoder \/ DeriveColumns \/ StartupExcept

(* --------------------------- handle_predict --------------------------- *)

\* A faulty variant: the check of the artifacts is left out.
ArtifactsCheckOmitted(m, e) == FALSE

\* if model is None or encoder is None
ArtifactsUnavailable(m, e) == m = None \/ e = None

\* A faulty variant: any() in place of all().
HasRequiredColsAny(input_df) ==
    \E i \in 1..Len(required_input_cols) : HasKey(input_df, required_input_cols[i])

\* A faulty variant: the validation also rejects null values.
HasRequiredColsNonNull(input_df) ==
    \A i \in 1..Len(required_input_cols) :
        /\ HasKey(input_df, required_input_cols[i])
        /\ input_df[required_input_cols[i]].kind # "null"

\* all(col in input_df.columns for col in required_input_cols)
HasRequiredCols(input_df) ==
    \A i \in 1..Len(required_input_cols) : HasKey(input_df, required_input_cols[i])

Finish(r, resp) ==
    /\ response' = [response EXCEPT ![r] = resp]
    /\ pc' = [pc EXCEPT ![r] = "done"]

Stage(r, name) == trace' = [trace EXCEPT ![r] = Append(@, name)]

\* A request arrives while the artifacts are missing.
RejectUnavailable(r, bodies) ==
    /\ phase = "serving" /\ pc[r] = "idle"
    /\ ArtifactsUnavailable(model, encoder)
    /\ \E j \in bodies :
          /\ request_json' = [request_json EXCEPT ![r] = j]
          /\ Finish(r, ModelNotLoaded)
          /\ UNCHANGED <<phase, globals, locals, trace>>

\* A request arrives with an empty body.
RejectEmpty(r, bodies) ==
    /\ phase = "serving" /\ pc[r] = "idle"
    /\ ~ArtifactsUnavailable(model, encoder)
    /\ \E j \in bodies :
          /\ request_json' = [request_json EXCEPT ![r] = j]
          /\ input_data' = [input_data EXCEPT ![r] = j]
          /\ Stage(r, "validate")
          /\ IsEmpty(j)
          /\ Finish(r, NoInputData)
          /\ UNCHANGED <<phase, globals, encoded_cats_df, features_combined,
                         features_final, anomaly_score_raw, risk_percentage>>

\* A request arrives without one of the required fields.
RejectMissing(r, bodies) ==
    /\ phase = "serving" /\ pc[r] = "idle"
    /\ ~ArtifactsUnavailable(model, encoder)
    /\ \E j \in bodies :
          /\ request_json' = [request_json EXCEPT ![r] = j]
          /\ input_data' = [input_data EXCEPT ![r] = j]
          /\ Stage(r, "validate")
          /\ ~IsEmpty(j)
          /\ ~HasRequiredCols(j)
          /\ Finish(r, MissingFields)
          /\ UNCHANGED <<phase, globals, encoded_cats_df, features_combined,
                         features_final, anomaly_score_raw, risk_percentage>>

\* A request arrives and passes the validation.
Accept(r, bodies) ==
    /\ phase = "serving" /\ pc[r] = "idle"
    /\ ~ArtifactsUnavailable(model, encoder)
    /\ \E j \in bodies :
          /\ request_json' = [request_json EXCEPT ![r] = j]
          /\ input_data' = [input_data EXCEPT ![r] = j]
          /\ Stage(r, "validate")
          /\ ~IsEmpty(j)
          /\ HasRequiredCols(j)
          /\ pc' = [pc EXCEPT ![r] = "encode"]
          /\ UNCHANGED <<phase, globals, encoded_cats_df, features_combined,
                         features_final, anomaly_score_raw, risk_percentage, response>>

CategoricalInput(r) ==
    [i \in 1..Len(categorical_cols) |-> input_data[r][categorical_cols[i]]]

\* encoder.transform(input_df[categorical_cols]) raises.
EncodeFails(r) ==
    /\ pc[r] = "encode"
    /\ TransformRaises(encoder, CategoricalInput(r))
    /\ Stage(r, "transform")
    /\ Finish(r, PredictionFailed)
    /\ UNCHANGED <<phase, globals, request_json, locals>>

\* A faulty variant: fit_transform in place of transform refits the shared encoder.
EncodeRefit(r) ==
    /\ pc[r] = "encode"
    /\ ~TransformRaises(encoder, CategoricalInput(r))
    /\ Stage(r, "transform")
    /\ encoder' = [encoder EXCEPT !.categories =
          [f \in Range(categorical_cols) |-> <<input_data[r][f].v>>]]
    /\ encoded_cats_df' = [encoded_cats_df EXCEPT ![r] =
          Frame(get_feature_names_out(encoder', categorical_cols),
                TransformRow(encoder', categorical_cols, CategoricalInput(r)))]
    /\ pc' = [pc EXCEPT ![r] = "assemble"]
    /\ UNCHANGED <<phase, model, model_input_columns, request_json, input_data,
                   features_combined, features_final, anomaly_score_raw,
                   risk_percentage, response>>

\* encoded_cats_df = DataFrame(encoder.transform(...), columns=...)
Encode(r) ==
    /\ pc[r] = "encode"
    /\ ~TransformRaises(encoder, CategoricalInput(r))
    /\ Stage(r, "transform")
    /\ encoded_cats_df' = [encoded_cats_df EXCEPT ![r] =
          Frame(get_feature_names_out(encoder, categorical_cols),
                TransformRow(encoder, categorical_cols, CategoricalInput(r)))]
    /\ pc' = [pc EXCEPT ![r] = "assemble"]
    /\ UNCHANGED <<phase, globals, request_json, input_data, features_combined,
                   features_final, anomaly_score_raw, risk_percentage, response>>

\* pd.concat, then reindex against model_input_columns.
Assemble(r) ==
    /\ pc[r] = "assemble"
    /\ Stage(r, "reindex")
    /\ LET combined == Concat(Select(input_data[r], numerical_cols),
                              encoded_cats_df[r])
       IN /\ features_combined' = [features_combined EXCEPT ![r] = combined]
          /\ features_final' = [features_final EXCEPT ![r] =
                Reindex(combined, model_input_columns, Num(0))]
    /\ pc' = [pc EXCEPT ![r] = "score"]
    /\ UNCHANGED <<phase, globals, request_json, input_data, encoded_cats_df,
                   anomaly_score_raw, risk_percentage, response>>

\* model.decision_function(features_final) raises.
ScoreFails(r) ==
    /\ pc[r] = "score"
    /\ DecisionRaises(model, features_final[r])
    /\ Stage(r, "decision_function")
    /\ Finish(r, PredictionFailed)
    /\ UNCHANGED <<phase, globals, request_json, locals>>

\* anomaly_score_raw = model.decision_function(features_final)[0]
Score(r) ==
    /\ pc[r] = "score"
    /\ ~DecisionRaises(model, features_final[r])
    /\ Stage(r, "decision_function")
    /\ anomaly_score_raw' = [anomaly_score_raw EXCEPT ![r] =
          DecisionFunction(model, features_final[r])]
    /\ pc' = [pc EXCEPT ![r] = "normalize"]
    /\ UNCHANGED <<phase, globals, request_json, input_data, encoded_cats_df,
                   features_combined, features_final, risk_percentage, response>>

\* Scale, clamp, round and return the result.
Normalize(r) ==
    /\ pc[r] = "normalize"
    /\ Stage(r, "normalize")
    /\ LET risk == ClampRisk(ScaleRisk(anomaly_score_raw[r]))
       IN /\ risk_percentage' = [risk_percentage EXCEPT ![r] = risk]
          /\ Finish(r, Result(RoundRisk(risk), anomaly_score_raw[r]))
    /\ UNCHANGED <<phase, globals, request_json, input_data, encoded_cats_df,
                   features_combined, features_final, anomaly_score_raw>>

\* The response is sent and the handler's frame is gone.
Return(r) ==
    /\ pc[r] = "done"
    /\ pc' = [pc EXCEPT ![r] = "idle"]
    /\ request_json' = [request_json EXCEPT ![r] = Unbound]
    /\ input_data' = [input_data EXCEPT ![r] = Unbound]
    /\ encoded_cats_df' = [encoded_cats_df EXCEPT ![r] = NoFrame]
    /\ features_combined' = [features_combined EXCEPT ![r] = NoFrame]
    /\ features_final' = [features_final EXCEPT ![r] = NoFrame]
    /\ anomaly_score_raw' = [anomaly_score_raw EXCEPT ![r] = 0]
    /\ risk_percentage' = [risk_percentage EXCEPT ![r] = 0]
    /\ response' = [response EXCEPT ![r] = NoResponse]
    /\ trace' = [trace EXCEPT ![r] = <<>>]
    /\ UNCHANGED <<phase, globals>>

(* --------------------------- specifications --------------------------- *)

\* One request at a time, over every request body.
Next ==
    \/ LoadModel
    \/ LoadEncoder
    \/ DeriveColumns
    \/ StartupExcept
    \/ RejectUnavailable(1, Inputs)
    \/ RejectEmpty(1, Inputs)
    \/ RejectMissing(1, Inputs)
    \/ Accept(1, Inputs)
    \/ EncodeFails(1)
    \/ Encode(1)
    \/ Assemble(1)
    \/ ScoreFails(1)
    \/ Score(1)
    \/ Normalize(1)
    \/ Return(1)

Spec == Init /\ [][Next]_vars

Body(soil, crop, tillage, season, temp, precip) ==
    [soil_type |-> soil, crop_type |-> crop, tillage_type |-> tillage,
     season |-> season, temp_7day_avg_f |-> temp,
     precip_7day_total_in |-> precip, notes |-> Absent]

\* The bodies of the concurrent runs: one of each way through the handler.
SampleInputs ==
    {Body(Absent, Absent, Absent, Absent, Absent, Absent),
     Body(Str(1), Str(1), Str(1), Str(1), Num(0), Num(1)),
     Body(Str(NCats), Str(1), Str(1), Str(1), Num(1), Num(0)),
     Body(Str(0), Str(1), Str(1), Str(1), Num(0), Num(1)),
     Body(Str(1), Str(1), Str(1), Absent, Num(0), Num(1)),
     Body(Str(1), Str(1), Str(1), Str(1), Null, Num(1)),
     Body(Str(1), Nested, Str(1), Str(1), Num(0), Num(1)),
     Body(Null, Str(1), Str(1), Str(1), Num(0), Num(1))}

\* Requests interleaved step by step.
NextConcurrent ==
    \/ Startup
    \/ \E r \in Requests :
          \/ RejectUnavailable(r, SampleInputs)
          \/ RejectEmpty(r, SampleInputs)
          \/ RejectMissing(r, SampleInputs)
          \/ Accept(r, SampleInputs)
          \/ EncodeFails(r)
          \/ Encode(r)
          \/ Assemble(r)
          \/ ScoreFails(r)
          \/ Score(r)
          \/ Normalize(r)
          \/ Return(r)

SpecConcurrent == Init /\ [][NextConcurrent]_vars

\* The raw scores the normalization is run on.
Scores == (-MaxScore..MaxScore) \cup {-FarScore, FarScore}

\* The body of the two requests of the normalization runs.
ScoredBody == Body(Str(1), Str(1), Str(1), Str(1), Num(0), Num(1))

ScoredEncoded ==
    Frame(get_feature_names_out(encoder, categorical_cols),
          TransformRow(encoder, categorical_cols,
             [i \in 1..Len(categorical_cols) |-> ScoredBody[categorical_cols[i]]]))

ScoredCombined == Concat(Select(ScoredBody, numerical_cols), ScoredEncoded)

\* Two requests stand before the normalization, the model having returned
\* raw scores s1 < s2 for them; any further request is idle.
InitNormalize ==
    /\ phase = "serving"
    /\ model = CHOOSE m \in ModelArtifacts : m.weight > 0
    /\ encoder = CHOOSE e \in EncoderArtifacts : e.null_as = "unknown"
    /\ model_input_columns =
          [i \in 1..Len(numerical_cols) |-> NumCol(numerical_cols[i])]
          \o get_feature_names_out(encoder, categorical_cols)
    /\ pc = [r \in Requests |-> IF r <= 2 THEN "normalize" ELSE "idle"]
    /\ request_json = [r \in Requests |-> IF r <= 2 THEN ScoredBody ELSE Unbound]
    /\ input_data = request_json
    /\ encoded_cats_df = [r \in Requests |-> IF r <= 2 THEN ScoredEncoded ELSE NoFrame]
    /\ features_combined =
          [r \in Requests |-> IF r <= 2 THEN ScoredCombined ELSE NoFrame]
    /\ features_final =
          [r \in Requests |->
              IF r <= 2 THEN Reindex(ScoredCombined, model_input_columns, Num(0))
              ELSE NoFrame]
    /\ \E s1, s2 \in Scores :
          /\ s1 < s2
          /\ anomaly_score_raw =
                [r \in Requests |-> IF r = 1 THEN s1 ELSE IF r = 2 THEN s2 ELSE 0]
    /\ risk_percentage = [r \in Requests |-> 0]
    /\ response = [r \in Requests |-> NoResponse]
    /\ trace = [r \in Requests |->
                  IF r <= 2
                  THEN <<"validate", "transform", "reindex", "decision_function">>
                  ELSE <<>>]

NextNormalize == \E r \in Requests : Normalize(r)

SpecNormalize == InitNormalize /\ [][NextNormalize]_vars

(* ------------------------------- claims ------------------------------- *)

Done(r) == pc[r] = "done"

ArtifactAbsent == model = None \/ encoder = None

Loaded == phase = "serving" /\ ~ArtifactAbsent

LacksRequired(j) ==
    \E i \in 1..Len(required_input_cols) : ~HasKey(j, required_input_cols[i])

HasAllRequired(j) ==
    \A i \in 1..Len(required_input_cols) : HasKey(j, required_input_cols[i])

HasNull(j) ==
    \E i \in 1..Len(required_input_cols) : j[required_input_cols[i]].kind = "null"

StageOrder ==
    <<"validate", "transform", "reindex", "decision_function", "normalize">>

IsPrefix(t, s) == Len(t) <= Len(s) /\ \A i \in 1..Len(t) : t[i] = s[i]

\* C1 as stated: with the artifacts loaded, every body that lacks one of the
\* six required keys, the empty body included, ends in the missing-fields
\* error that names all six.
C1_Original ==
    \A r \in Requests :
        Done(r) /\ Loaded /\ LacksRequired(request_json[r])
            => response[r] = MissingFields

\* C1, amended: with the artifacts loaded, every body that is not empty and
\* lacks one of the six required keys ends, after the validation alone, in the
\* 400 missing-fields error that names all six required fields; the empty
\* body ends in the 400 "No input data provided" error instead.
C1_MissingFields ==
    \A r \in Requests :
        Done(r) /\ Loaded /\ LacksRequired(request_json[r])
            => /\ trace[r] = <<"validate">>
               /\ response[r].status = 400
               /\ IF IsEmpty(request_json[r])
                  THEN response[r].error = "No input data provided"
                  ELSE /\ response[r].error = "Missing required input fields. Need:"
                       /\ response[r].need = required_input_cols

C1_Witness ==
    \E r \in Requests :
        /\ Done(r) /\ Loaded
        /\ HasKey(request_json[r], "soil_type")
        /\ ~HasKey(request_json[r], "season")
        /\ response[r] = MissingFields

\* C2: once the startup has left the model or the encoder absent, a request
\* is never past its first step, and every request that has returned got the
\* artifacts-unavailable error with no input read and no stage invoked.
C2_FailFast ==
    \A r \in Requests :
        phase = "serving" /\ ArtifactAbsent
            => /\ pc[r] \in {"idle", "done"}
               /\ input_data[r] = Unbound
               /\ trace[r] = <<>>
               /\ encoded_cats_df[r] = NoFrame
               /\ features_final[r] = NoFrame
               /\ Done(r) => response[r] = ModelNotLoaded

C2_Witness ==
    \E r \in Requests :
        /\ Done(r)
        /\ ArtifactAbsent
        /\ HasAllRequired(request_json[r])
        /\ response[r] = ModelNotLoaded

\* C3 as stated: a body that has all six keys but a null among their values
\* never reaches the encoder.
C3_Original ==
    \A r \in Requests :
        pc[r] # "idle" /\ HasAllRequired(request_json[r]) /\ HasNull(request_json[r])
            => \A i \in 1..Len(trace[r]) : trace[r][i] # "transform"

\* C3, amended: the validation passes exactly for the bodies that hold all six
\* required keys, whatever their values; a body that has all six keys and a
\* null among their values passes it and reaches the encoder.
C3_PresenceOnly ==
    \A r \in Requests :
        Loaded /\ Done(r)
            => /\ HasAllRequired(request_json[r]) <=> Len(trace[r]) >= 2
               /\ HasAllRequired(request_json[r]) /\ HasNull(request_json[r])
                     => trace[r][2] = "transform"

C3_Witness ==
    \E r \in Requests :
        /\ Done(r) /\ Loaded
        /\ HasAllRequired(request_json[r])
        /\ request_json[r]["soil_type"] = Null
        /\ Len(trace[r]) >= 2
        /\ trace[r][2] = "transform"

\* The row the handler concatenates: temp_7day_avg_f, precip_7day_total_in,
\* then the encoded categorical columns.
ConcatenatedRow(r) ==
    Frame(<<NumCol("temp_7day_avg_f"), NumCol("precip_7day_total_in")>>
             \o encoded_cats_df[r].cols,
          <<request_json[r]["temp_7day_avg_f"],
            request_json[r]["precip_7day_total_in"]>>
             \o encoded_cats_df[r].vals)

Assembled(r) == Len(trace[r]) >= 3

\* C4: the feature vector handed to the model has one entry per column of
\* model_input_columns, in that order; entry i is the value the concatenated
\* row holds under that column's label, and 0 where the row has no such column.
C4_FeatureVector ==
    \A r \in Requests :
        Assembled(r)
            => LET row == ConcatenatedRow(r)
                   vec == features_final[r]
               IN /\ vec.cols = model_input_columns
                  /\ Len(vec.vals) = Len(model_input_columns)
                  /\ \A i \in 1..Len(model_input_columns) :
                        \/ \E k \in 1..Len(row.cols) :
                              /\ row.cols[k] = model_input_columns[i]
                              /\ vec.vals[i] = row.vals[k]
                        \/ /\ \A k \in 1..Len(row.cols) :
                                 row.cols[k] # model_input_columns[i]
                           /\ vec.vals[i] = Num(0)

C4_Witness ==
    \E r \in Requests :
        /\ Assembled(r)
        /\ request_json[r]["temp_7day_avg_f"] = Num(1)
        /\ request_json[r]["soil_type"] = Str(NCats)
        /\ Len(features_final[r].vals) = 2 + 4 * NCats
        /\ features_final[r].vals[1] = Num(1)
        /\ features_final[r].vals[2 + NCats] = Num(1)

\* The risk of raw score s before rounding, in quarters of a percent:
\* 100 * (0.2 - s) / (0.2 - (-0.2)) clamped to [0, 100].
ExactRisk(s) ==
    IF 200 - s < 0 THEN 0 ELSE IF 200 - s > 400 THEN 400 ELSE 200 - s

\* C5: the risk_percentage returned for raw score s is an integer of 0..100
\* that lies within half a percent of the clamped 100 * (0.2 - s) / 0.4; it is
\* 100 for every s <= -0.2, 0 for every s >= 0.2, and 50 for s = 0.
C5_RiskPercentage ==
    \A r \in Requests :
        Done(r) /\ response[r].status = 200
            => LET s == response[r].raw_anomaly_score
                   risk == response[r].risk_percentage
               IN /\ s = anomaly_score_raw[r]
                  /\ risk \in 0..100
                  /\ 4 * risk - ExactRisk(s) \in -2..2
                  /\ s <= -200 => risk = 100
                  /\ s >= 200 => risk = 0
                  /\ s = 0 => risk = 50

C5_Witness ==
    /\ Done(1) /\ Done(2)
    /\ response[1].raw_anomaly_score = -FarScore
    /\ response[1].risk_percentage = 100
    /\ response[2].raw_anomaly_score = 0
    /\ response[2].risk_percentage = 50

\* C6: of two returned risks, the one of the lower raw score is not the lower.
C6_Monotone ==
    \A r1, r2 \in Requests :
        /\ Done(r1) /\ response[r1].status = 200
        /\ Done(r2) /\ response[r2].status = 200
        /\ response[r1].raw_anomaly_score < response[r2].raw_anomaly_score
        => response[r1].risk_percentage >= response[r2].risk_percentage

C6_Witness ==
    /\ Done(1) /\ Done(2)
    /\ response[1].raw_anomaly_score = -2
    /\ response[2].raw_anomaly_score = 2
    /\ response[1].risk_percentage > response[2].risk_percentage

\* A body of the documented shape: four strings and two numbers.
WellTyped(j) ==
    /\ \A i \in 1..Len(categorical_cols) : j[categorical_cols[i]].kind = "str"
    /\ \A i \in 1..Len(numerical_cols) : j[numerical_cols[i]].kind = "num"

Unseen(j, f) == j[f].kind = "str" /\ j[f].v \notin Range(encoder.categories[f])

ResponseAlone(j) ==
    IF ArtifactsUnavailable(model, encoder) THEN ModelNotLoaded
    ELSE IF IsEmpty(j) THEN NoInputData
    ELSE IF ~HasAllRequired(j) THEN MissingFields
    ELSE LET X == [i \in 1..Len(categorical_cols) |-> j[categorical_cols[i]]]
         IN IF TransformRaises(encoder, X) THEN PredictionFailed
            ELSE LET row == Frame(
                        <<NumCol("temp_7day_avg_f"), NumCol("precip_7day_total_in")>>
                           \o get_feature_names_out(encoder, categorical_cols),
                        <<j["temp_7day_avg_f"], j["precip_7day_total_in"]>>
                           \o TransformRow(encoder, categorical_cols, X))
                     vec == Reindex(row, model_input_columns, Num(0))
                 IN IF DecisionRaises(model, vec) THEN PredictionFailed
                    ELSE LET s == DecisionFunction(model, vec)
                         IN Result(RoundRisk(ClampRisk(ScaleRisk(s))), s)

C8_OwnInputOnly ==
    /\ \A r \in Requests : Done(r) => response[r] = ResponseAlone(request_json[r])
    /\ \A r1, r2 \in Requests :
          Done(r1) /\ Done(r2) /\ request_json[r1] = request_json[r2]
             => response[r1] = response[r2]

\* C8: once the startup is over no step changes model, encoder or
\* model_input_columns, and under any interleaving every returned response
\* is the one its own body gets alone; equal bodies get equal responses.
C8_Isolation ==
    /\ [](C8_OwnInputOnly)
    /\ [][phase = "serving" => UNCHANGED <<phase, globals>>]_vars

C8_Witness ==
    /\ Done(1) /\ pc[2] = "score"
    /\ response[1].status = 200
    /\ request_json[1] # request_json[2]

\* C9: the stages run in the order validation, transform, reindex, scoring,
\* normalization, each at most once; a request whose stage fails ends there,
\* with a 400 after a failed validation and a 500 after a failed transform
\* or scoring, and a success is returned only after all five stages.
C9_StageOrder ==
    \A r \in Requests :
        /\ IsPrefix(trace[r], StageOrder)
        /\ Done(r) /\ Loaded
              => LET j == request_json[r]
                     X == [i \in 1..Len(categorical_cols) |-> j[categorical_cols[i]]]
                 IN IF IsEmpty(j) \/ ~HasAllRequired(j)
                    THEN Len(trace[r]) = 1 /\ response[r].status = 400
                    ELSE IF TransformRaises(encoder, X)
                    THEN /\ Len(trace[r]) = 2
                         /\ response[r].status = 500
                         /\ response[r].error = "Prediction failed:"
                    ELSE IF DecisionRaises(model, features_final[r])
                    THEN /\ Len(trace[r]) = 4
                         /\ response[r].status = 500
                         /\ response[r].error = "Prediction failed:"
                    ELSE Len(trace[r]) = 5 /\ response[r].status = 200

C9_Witness ==
    \E r \in Requests :
        /\ Done(r) /\ Loaded
        /\ trace[r] = <<"validate", "transform", "reindex", "decision_function">>
        /\ response[r].status = 500

\* C10: after the startup either the model and the encoder are both loaded
\* and model_input_columns is the two numerical columns followed by the
\* encoder's one-hot names, or both are None and model_input_columns is
\* empty; the model is never scored against an empty model_input_columns.
C10_AllOrNothing ==
    phase = "serving"
        => /\ \/ /\ model \in ModelArtifacts
                 /\ encoder \in EncoderArtifacts
                 /\ model_input_columns =
                       <<NumCol("temp_7day_avg_f"), NumCol("precip_7day_total_in")>>
                          \o get_feature_names_out(encoder, categorical_cols)
              \/ /\ model = None
                 /\ encoder = None
                 /\ model_input_columns = <<>>
           /\ \A r \in Requests :
                 Len(trace[r]) >= 4 => model_input_columns # <<>>

C10_Witness ==
    /\ phase = "serving"
    /\ model = None /\ encoder = None /\ model_input_columns = <<>>
    /\ \E r \in Requests : Done(r) /\ response[r] = ModelNotLoaded

====
